---------------------------- MODULE Spec2Model ----------------------------
(***************************************************************************)
(* Model of the document layout engine of diva.js (getDocumentLayout and   *)
(* its helpers) and of its simple-auth plugin (SimpleAuthPlugin).          *)
(*                                                                         *)
(* Numbers.  JavaScript numbers are modelled exactly:                      *)
(*   - a raw page dimension (pageData.w, pageData.h) is a non-negative     *)
(*     rational [n |-> numerator, d |-> denominator]; Math.floor is        *)
(*     integer division of the two;                                        *)
(*   - everything the groupers compute (layout width, height, offsets)     *)
(*     is a whole number of pixels;                                        *)
(*   - getDocumentLayout divides by 2 when it centres a group, so every    *)
(*     value it computes (region.top/bottom/left/right and                 *)
(*     dimensions.height/width) is held in HALF PIXELS: the model value v  *)
(*     stands for the JavaScript number v / 2.  Px(n) is n whole pixels in *)
(*     that unit.                                                          *)
(* Page indices are 0-based as in the code; manifest.pages is a TLA+       *)
(* sequence, so page i is manifest.pages[i + 1].                           *)
(***************************************************************************)
EXTENDS Integers, Sequences, FiniteSets, Bags, TLC

VARIABLES
    config,     \* the argument of getDocumentLayout
    result,     \* what the call produced: nothing yet, a return value, or a throw
    pc,         \* "start" before the call, "done" after it
    authToken,          \* this.authToken: Null or Val(token)
    authError,          \* this.authError: Null or Val(error)
    authTokenId,        \* this.authTokenId: Null or Val(id)
    addRequestHeaders,  \* core.settings.addRequestHeaders: Null or Val(header map)
    tokenFrame,         \* the 'iiif-token-frame' iframe: Null or [src |-> url]
    errorElements,      \* the error dialogs shown, in document order: for each
                        \* the number of click listeners on its login button
    loginWindows,       \* the bag of login windows opened so far: when
                        \* opened, by what, whether closed, and how many
                        \* token requests their poll has issued (the poll
                        \* runs while that is 0)
    tokenRequests,      \* the ids of the token requests issued so far, in order
    manifestRequests,   \* the bag of manifest requests in flight, each with the
                        \* headers it was sent with
    delivered,          \* how many postMessage events have been delivered
    now,                \* Date.now()
    lastEvent           \* the handler the last step ran, if it was the
                        \* "ManifestFetchError" subscriber or the "message"
                        \* listener: on what status and whether it threw,
                        \* or where it returned

layoutVars == <<config, result, pc>>

pluginVars == <<authToken, authError, authTokenId, addRequestHeaders, tokenFrame>>

authVars == <<authToken, authError, authTokenId, addRequestHeaders, tokenFrame,
              errorElements, loginWindows, tokenRequests, manifestRequests,
              delivered, now, lastEvent>>

vars == <<config, result, pc, authToken, authError, authTokenId, addRequestHeaders,
          tokenFrame, errorElements, loginWindows, tokenRequests,
          manifestRequests, delivered, now, lastEvent>>

---------------------------------------------------------------------------
(* Bounds of the explored inputs *)

\* Manifests of up to MaxPages pages are explored with every mix of page
\* sizes and paged marks
MaxPages == 3

\* Longer manifests, up to MaxLongPages pages, are explored with pages all alike
MaxLongPages == 5

MaxPadSum == 2

MaxZoom == 1

\* At most MaxWindows login windows are opened; further window.open calls
\* are blocked by the browser
MaxWindows == 2

\* At most MaxMessages postMessage events are delivered
MaxMessages == 2

\* Date.now() advances up to MaxClock milliseconds past Epoch
MaxClock == 1

\* Date.now() when the plugin is constructed: a count of milliseconds far
\* from 0 and 1, the only numbers a boolean or an empty string compares
\* equal to (a real count has more digits; this one keeps ten times its
\* value inside 32 bits)
Epoch == 1000000

---------------------------------------------------------------------------
(* Arithmetic helpers *)

\* The divisor of the centring computation; region values are kept in units
\* of 1/HalfDiv pixel
HalfDiv == 2

Px(n) == n * HalfDiv

Rat(n, d) == [n |-> n, d |-> d]

\* Math.floor of a non-negative rational
MathFloor(q) == q.n \div q.d

\* Math.max
MathMax(a, b) == IF a >= b THEN a ELSE b

RECURSIVE Pow2(_)
Pow2(z) == IF z = 0 THEN 1 ELSE 2 * Pow2(z - 1)

---------------------------------------------------------------------------
(* Values *)

\* leftPage === null
Null == [isNull |-> TRUE]

\* An uncaught exception leaving the function
Throw(e) == [kind |-> "throw", error |-> e]

Return(v) == [kind |-> "return", value |-> v]

IsThrow(r) == r.kind = "throw"


\* An absent options argument
Undefined == [isUndefined |-> TRUE]

---------------------------------------------------------------------------
(* getPageDimensions *)

\* Mutant of getPageDimensions: a zoom level missing from the page's table
\* yields an empty page instead of an error
getPageDimensions_ZeroWhenMissing(pageIndex, manifest, zoomLevel, options) ==
    IF zoomLevel \notin DOMAIN manifest.pages[pageIndex + 1].d
    THEN Return([width |-> 0, height |-> 0])
    ELSE LET pageData == manifest.pages[pageIndex + 1].d[zoomLevel]
             width    == MathFloor(pageData.w)
             height   == MathFloor(pageData.h)
         IN  Return([width |-> width, height |-> height])

\* manifest.pages[pageIndex].d[zoomLevel] exists
HasZoomLevel(pageIndex, manifest, zoomLevel) ==
    zoomLevel \in DOMAIN manifest.pages[pageIndex + 1].d

\* getPageDimensions(pageIndex, manifest, zoomLevel, options): reading .w of
\* an undefined pageData raises a TypeError
getPageDimensions(pageIndex, manifest, zoomLevel, options) ==
    IF ~HasZoomLevel(pageIndex, manifest, zoomLevel)
    THEN Throw("TypeError")
    ELSE LET pageData == manifest.pages[pageIndex + 1].d[zoomLevel]
             width    == MathFloor(pageData.w)
             height   == MathFloor(pageData.h)
             round    == (options = Undefined) \/ options.round
         IN  IF round
             THEN Return([width  |-> MathFloor(Rat(width, 1)),
                          height |-> MathFloor(Rat(height, 1))])
             ELSE Return([width |-> width, height |-> height])

---------------------------------------------------------------------------
(* getSinglesLayoutGroups *)

\* The group of page i: extend({pageOffsets: [{index: i, top: 0, left: 0}]}, pageDims)
SinglesGroup(i, pageDims) ==
    [pageOffsets |-> << [index |-> i, top |-> 0, left |-> 0] >>,
     width       |-> pageDims.width,
     height      |-> pageDims.height]

\* Mutant of SinglesMap: a non-paged canvas of a paged manifest is skipped,
\* as the book grouper does
RECURSIVE SinglesMap_SkipNonPaged(_, _, _, _)
SinglesMap_SkipNonPaged(manifest, zoomLevel, i, groups) ==
    IF i >= Len(manifest.pages)
    THEN Return(groups)
    ELSE IF manifest.paged /\ ~manifest.pages[i + 1].paged
    THEN SinglesMap_SkipNonPaged(manifest, zoomLevel, i + 1, groups)
    ELSE LET pageDims == getPageDimensions(i, manifest, zoomLevel, Undefined)
         IN  IF IsThrow(pageDims)
             THEN pageDims
             ELSE SinglesMap_SkipNonPaged(manifest, zoomLevel, i + 1,
                                          Append(groups, SinglesGroup(i, pageDims.value)))

\* manifest.pages.map(...) from page i on, given the groups of the pages before
RECURSIVE SinglesMap(_, _, _, _)
SinglesMap(manifest, zoomLevel, i, groups) ==
    IF i >= Len(manifest.pages)
    THEN Return(groups)
    ELSE LET pageDims == getPageDimensions(i, manifest, zoomLevel, Undefined)
         IN  IF IsThrow(pageDims)
             THEN pageDims
             ELSE SinglesMap(manifest, zoomLevel, i + 1,
                             Append(groups, SinglesGroup(i, pageDims.value)))

getSinglesLayoutGroups(manifest, zoomLevel) ==
    SinglesMap(manifest, zoomLevel, 0, << >>)

---------------------------------------------------------------------------
(* getFacingPageGroup *)

\* Mutant of getFacingPageGroup: the shared column is sized by the left page
\* alone
getFacingPageGroup_LeftWidth(leftPage, rightPage, verticallyOriented) ==
    LET height   == MathMax(leftPage.height, rightPage.height)
        midWidth == leftPage.width
        width    == IF verticallyOriented
                    THEN midWidth * 2
                    ELSE leftPage.width + rightPage.width
        firstLeftOffset  == IF verticallyOriented
                            THEN midWidth - leftPage.width
                            ELSE 0
        secondLeftOffset == IF verticallyOriented
                            THEN midWidth
                            ELSE leftPage.width
    IN  [height      |-> height,
         width       |-> width,
         pageOffsets |-> << [index |-> leftPage.index,  top |-> 0, left |-> firstLeftOffset],
                            [index |-> rightPage.index, top |-> 0, left |-> secondLeftOffset] >>]

\* Mutant of getFacingPageGroup: the group takes the height of the left page
getFacingPageGroup_LeftHeight(leftPage, rightPage, verticallyOriented) ==
    LET height   == leftPage.height
        midWidth == MathMax(leftPage.width, rightPage.width)
        width    == IF verticallyOriented
                    THEN midWidth * 2
                    ELSE leftPage.width + rightPage.width
        firstLeftOffset  == IF verticallyOriented
                            THEN midWidth - leftPage.width
                            ELSE 0
        secondLeftOffset == IF verticallyOriented
                            THEN midWidth
                            ELSE leftPage.width
    IN  [height      |-> height,
         width       |-> width,
         pageOffsets |-> << [index |-> leftPage.index,  top |-> 0, left |-> firstLeftOffset],
                            [index |-> rightPage.index, top |-> 0, left |-> secondLeftOffset] >>]

getFacingPageGroup(leftPage, rightPage, verticallyOriented) ==
    LET height   == MathMax(leftPage.height, rightPage.height)
        midWidth == MathMax(leftPage.width, rightPage.width)
        width    == IF verticallyOriented
                    THEN midWidth * 2
                    ELSE leftPage.width + rightPage.width
        firstLeftOffset  == IF verticallyOriented
                            THEN midWidth - leftPage.width
                            ELSE 0
        secondLeftOffset == IF verticallyOriented
                            THEN midWidth
                            ELSE leftPage.width
    IN  [height      |-> height,
         width       |-> width,
         pageOffsets |-> << [index |-> leftPage.index,  top |-> 0, left |-> firstLeftOffset],
                            [index |-> rightPage.index, top |-> 0, left |-> secondLeftOffset] >>]

---------------------------------------------------------------------------
(* getBookLayoutGroups *)

\* Mutant of FirstPageGroup: the first page is placed flush left
FirstPageGroup_FlushLeft(pageDims) ==
    [height      |-> pageDims.height,
     width       |-> pageDims.width * 2,
     pageOffsets |-> << [index |-> 0, top |-> 0, left |-> 0] >>]

\* The first page is placed on its own to the right
FirstPageGroup(pageDims) ==
    [height      |-> pageDims.height,
     width       |-> pageDims.width * 2,
     pageOffsets |-> << [index |-> 0, top |-> 0, left |-> pageDims.width] >>]

\* Flush a final left page
FinalLeftPageGroup(leftPage, verticallyOriented) ==
    [height      |-> leftPage.height,
     width       |-> IF verticallyOriented THEN leftPage.width * 2 ELSE leftPage.width,
     pageOffsets |-> << [index |-> leftPage.index, top |-> 0, left |-> 0] >>]

\* extend({index: index}, pageDims)
IndexedPage(index, pageDims) ==
    [index |-> index, width |-> pageDims.width, height |-> pageDims.height]

\* Skip non-paged canvases in a paged manifest
SkipPage(manifest, index) ==
    manifest.paged /\ ~manifest.pages[index + 1].paged

\* Mutant of BookForEach: the first page gets no group of its own and is
\* paired like any other page
RECURSIVE BookForEach_NoCover(_, _, _, _, _, _)
BookForEach_NoCover(manifest, zoomLevel, verticallyOriented, index, groups, leftPage) ==
    IF index >= Len(manifest.pages)
    THEN Return([groups |-> groups, leftPage |-> leftPage])
    ELSE IF SkipPage(manifest, index)
    THEN BookForEach_NoCover(manifest, zoomLevel, verticallyOriented, index + 1,
                             groups, leftPage)
    ELSE LET pageDims == getPageDimensions(index, manifest, zoomLevel, [round |-> FALSE])
         IN  IF IsThrow(pageDims)
             THEN pageDims
             ELSE IF leftPage = Null
             THEN BookForEach_NoCover(manifest, zoomLevel, verticallyOriented, index + 1,
                                      groups, IndexedPage(index, pageDims.value))
             ELSE BookForEach_NoCover(manifest, zoomLevel, verticallyOriented, index + 1,
                                      Append(groups,
                                             getFacingPageGroup(leftPage,
                                                                IndexedPage(index, pageDims.value),
                                                                verticallyOriented)),
                                      Null)

\* Mutant of BookForEach: skipping a non-paged canvas discards the pending
\* left page
RECURSIVE BookForEach_SkipDropsPending(_, _, _, _, _, _)
BookForEach_SkipDropsPending(manifest, zoomLevel, verticallyOriented, index, groups, leftPage) ==
    IF index >= Len(manifest.pages)
    THEN Return([groups |-> groups, leftPage |-> leftPage])
    ELSE IF SkipPage(manifest, index)
    THEN BookForEach_SkipDropsPending(manifest, zoomLevel, verticallyOriented, index + 1,
                                      groups, Null)
    ELSE LET pageDims == getPageDimensions(index, manifest, zoomLevel, [round |-> FALSE])
         IN  IF IsThrow(pageDims)
             THEN pageDims
             ELSE IF verticallyOriented /\ index = 0
             THEN BookForEach_SkipDropsPending(manifest, zoomLevel, verticallyOriented,
                                               index + 1,
                                               Append(groups, FirstPageGroup(pageDims.value)),
                                               leftPage)
             ELSE IF leftPage = Null
             THEN BookForEach_SkipDropsPending(manifest, zoomLevel, verticallyOriented,
                                               index + 1,
                                               groups, IndexedPage(index, pageDims.value))
             ELSE BookForEach_SkipDropsPending(manifest, zoomLevel, verticallyOriented,
                                               index + 1,
                                               Append(groups,
                                                      getFacingPageGroup(leftPage,
                                                                         IndexedPage(index, pageDims.value),
                                                                         verticallyOriented)),
                                               Null)

\* Mutant of BookForEach: the first page that is not skipped, whatever its
\* index, is placed on its own to the right
RECURSIVE BookForEach_FirstEligibleIsCover(_, _, _, _, _, _)
BookForEach_FirstEligibleIsCover(manifest, zoomLevel, verticallyOriented, index, groups, leftPage) ==
    IF index >= Len(manifest.pages)
    THEN Return([groups |-> groups, leftPage |-> leftPage])
    ELSE IF SkipPage(manifest, index)
    THEN BookForEach_FirstEligibleIsCover(manifest, zoomLevel, verticallyOriented, index + 1,
                                          groups, leftPage)
    ELSE LET pageDims == getPageDimensions(index, manifest, zoomLevel, [round |-> FALSE])
         IN  IF IsThrow(pageDims)
             THEN pageDims
             ELSE IF verticallyOriented /\ groups = << >> /\ leftPage = Null
             THEN BookForEach_FirstEligibleIsCover(manifest, zoomLevel, verticallyOriented,
                                                   index + 1,
                                                   Append(groups,
                                                          [height |-> pageDims.value.height,
                                                           width  |-> pageDims.value.width * 2,
                                                           pageOffsets |->
                                                               << [index |-> index, top |-> 0,
                                                                   left |-> pageDims.value.width] >>]),
                                                   leftPage)
             ELSE IF leftPage = Null
             THEN BookForEach_FirstEligibleIsCover(manifest, zoomLevel, verticallyOriented,
                                                   index + 1,
                                                   groups, IndexedPage(index, pageDims.value))
             ELSE BookForEach_FirstEligibleIsCover(manifest, zoomLevel, verticallyOriented,
                                                   index + 1,
                                                   Append(groups,
                                                          getFacingPageGroup(leftPage,
                                                                             IndexedPage(index, pageDims.value),
                                                                             verticallyOriented)),
                                                   Null)

\* manifest.pages.forEach(...) from page `index` on, with the groups pushed so
\* far and the pending left page; the result is the state after the last page
RECURSIVE BookForEach(_, _, _, _, _, _)
BookForEach(manifest, zoomLevel, verticallyOriented, index, groups, leftPage) ==
    IF index >= Len(manifest.pages)
    THEN Return([groups |-> groups, leftPage |-> leftPage])
    ELSE IF SkipPage(manifest, index)
    THEN BookForEach(manifest, zoomLevel, verticallyOriented, index + 1, groups, leftPage)
    ELSE LET pageDims == getPageDimensions(index, manifest, zoomLevel, [round |-> FALSE])
         IN  IF IsThrow(pageDims)
             THEN pageDims
             ELSE IF verticallyOriented /\ index = 0
             THEN BookForEach(manifest, zoomLevel, verticallyOriented, index + 1,
                              Append(groups, FirstPageGroup(pageDims.value)), leftPage)
             ELSE IF leftPage = Null
             THEN BookForEach(manifest, zoomLevel, verticallyOriented, index + 1,
                              groups, IndexedPage(index, pageDims.value))
             ELSE BookForEach(manifest, zoomLevel, verticallyOriented, index + 1,
                              Append(groups,
                                     getFacingPageGroup(leftPage,
                                                        IndexedPage(index, pageDims.value),
                                                        verticallyOriented)),
                              Null)

\* Mutant of getBookLayoutGroups: a left page still pending after the scan
\* is not flushed
getBookLayoutGroups_NoFlush(manifest, zoomLevel, verticallyOriented) ==
    LET scan == BookForEach(manifest, zoomLevel, verticallyOriented, 0, << >>, Null)
    IN  IF IsThrow(scan)
        THEN scan
        ELSE Return(scan.value.groups)

getBookLayoutGroups(manifest, zoomLevel, verticallyOriented) ==
    LET scan == BookForEach(manifest, zoomLevel, verticallyOriented, 0, << >>, Null)
    IN  IF IsThrow(scan)
        THEN scan
        ELSE IF scan.value.leftPage # Null
        THEN Return(Append(scan.value.groups,
                           FinalLeftPageGroup(scan.value.leftPage, verticallyOriented)))
        ELSE Return(scan.value.groups)

---------------------------------------------------------------------------
(* getExtentAlongSecondaryAxis *)

\* layouts.reduce(function (maxDim, layout) { return Math.max(layout[secondaryDim], maxDim); }, 0)
\* over layouts[i..], with the accumulator maxDim; dim is "width" or "height"
RECURSIVE ReduceMax(_, _, _, _)
ReduceMax(layouts, dim, i, maxDim) ==
    IF i > Len(layouts)
    THEN maxDim
    ELSE ReduceMax(layouts, dim, i + 1,
                   MathMax(IF dim = "width" THEN layouts[i].width ELSE layouts[i].height,
                           maxDim))

\* Mutant of getExtentAlongSecondaryAxis: the document padding of the other
\* axis is added
getExtentAlongSecondaryAxis_OtherAxisPadding(layouts, cfg) ==
    LET docPadding       == cfg.padding.document
        secondaryDim     == IF cfg.verticallyOriented THEN "width" ELSE "height"
        secondaryPadding == IF cfg.verticallyOriented
                            THEN docPadding.top + docPadding.bottom
                            ELSE docPadding.left + docPadding.right
    IN  secondaryPadding + ReduceMax(layouts, secondaryDim, 1, 0)

\* In whole pixels
getExtentAlongSecondaryAxis(layouts, cfg) ==
    LET docPadding       == cfg.padding.document
        secondaryDim     == IF cfg.verticallyOriented THEN "width" ELSE "height"
        secondaryPadding == IF cfg.verticallyOriented
                            THEN docPadding.left + docPadding.right
                            ELSE docPadding.top + docPadding.bottom
    IN  secondaryPadding + ReduceMax(layouts, secondaryDim, 1, 0)

---------------------------------------------------------------------------
(* getDocumentLayout *)

\* var pagePadding = {top: config.padding.page.top, left: config.padding.page.left}
PagePadding(cfg) ==
    [top |-> cfg.padding.page.top, left |-> cfg.padding.page.left]

\* Mutant of CenteredOffset: the offset is rounded down to a whole pixel
CenteredOffset_Floored(documentSecondaryExtent, dim) ==
    Px((documentSecondaryExtent - dim) \div 2)

\* (documentSecondaryExtent - dim) / 2, in half pixels
CenteredOffset(documentSecondaryExtent, dim) ==
    (Px(documentSecondaryExtent) - Px(dim)) \div 2

\* Mutant of GroupRegion: the page padding is added on the trailing side as
\* well as on the leading side
GroupRegion_PaddingTwice(cfg, layout, primaryDocPosition, documentSecondaryExtent) ==
    LET pagePadding == PagePadding(cfg)
        top  == IF cfg.verticallyOriented
                THEN primaryDocPosition
                ELSE CenteredOffset(documentSecondaryExtent, layout.height)
        left == IF cfg.verticallyOriented
                THEN CenteredOffset(documentSecondaryExtent, layout.width)
                ELSE primaryDocPosition
    IN  [top    |-> top,
         bottom |-> top + 2 * Px(pagePadding.top) + Px(layout.height),
         left   |-> left,
         right  |-> left + 2 * Px(pagePadding.left) + Px(layout.width)]

\* The region of one layout group, in half pixels; primaryDocPosition is in
\* half pixels too
GroupRegion(cfg, layout, primaryDocPosition, documentSecondaryExtent) ==
    LET pagePadding == PagePadding(cfg)
        top  == IF cfg.verticallyOriented
                THEN primaryDocPosition
                ELSE CenteredOffset(documentSecondaryExtent, layout.height)
        left == IF cfg.verticallyOriented
                THEN CenteredOffset(documentSecondaryExtent, layout.width)
                ELSE primaryDocPosition
    IN  [top    |-> top,
         bottom |-> top + Px(pagePadding.top) + Px(layout.height),
         left   |-> left,
         right  |-> left + Px(pagePadding.left) + Px(layout.width)]

\* Mutant of NextDocPosition: the cursor advances along the other axis
NextDocPosition_OtherAxis(cfg, region) ==
    IF cfg.verticallyOriented THEN region.right ELSE region.bottom

\* primaryDocPosition = config.verticallyOriented ? region.bottom : region.right
NextDocPosition(cfg, region) ==
    IF cfg.verticallyOriented THEN region.bottom ELSE region.right

\* layouts.forEach(function (layout, index) {...}) from layouts[i] on (i is
\* 1-based, the pushed index is i - 1)
RECURSIVE LayoutsForEach(_, _, _, _, _, _)
LayoutsForEach(cfg, layouts, documentSecondaryExtent, i, primaryDocPosition, pageGroups) ==
    IF i > Len(layouts)
    THEN [primaryDocPosition |-> primaryDocPosition, pageGroups |-> pageGroups]
    ELSE LET region == GroupRegion(cfg, layouts[i], primaryDocPosition,
                                   documentSecondaryExtent)
         IN  LayoutsForEach(cfg, layouts, documentSecondaryExtent, i + 1,
                            NextDocPosition(cfg, region),
                            Append(pageGroups,
                                   [index   |-> i - 1,
                                    layout  |-> layouts[i],
                                    region  |-> region,
                                    padding |-> PagePadding(cfg)]))

\* Mutant of DocumentDimensions: no padding is added after the last group
DocumentDimensions_NoTrailingPadding(cfg, primaryDocPosition, documentSecondaryExtent) ==
    IF cfg.verticallyOriented
    THEN [height |-> primaryDocPosition,
          width  |-> Px(documentSecondaryExtent)]
    ELSE [height |-> Px(documentSecondaryExtent),
          width  |-> primaryDocPosition]

\* The overall height and width, in half pixels
DocumentDimensions(cfg, primaryDocPosition, documentSecondaryExtent) ==
    IF cfg.verticallyOriented
    THEN [height |-> primaryDocPosition + Px(PagePadding(cfg).top),
          width  |-> Px(documentSecondaryExtent)]
    ELSE [height |-> Px(documentSecondaryExtent),
          width  |-> primaryDocPosition + Px(PagePadding(cfg).left)]

\* Get layout groups for the current view
LayoutGroups(cfg) ==
    IF cfg.inBookLayout
    THEN getBookLayoutGroups(cfg.manifest, cfg.zoomLevel, cfg.verticallyOriented)
    ELSE getSinglesLayoutGroups(cfg.manifest, cfg.zoomLevel)

\* Mutant of getDocumentLayout: the reduce over the layouts has no initial
\* value, which raises a TypeError on an empty array
getDocumentLayout_ReduceWithoutInitial(cfg) ==
    LET layouts == LayoutGroups(cfg)
    IN  IF IsThrow(layouts)
        THEN layouts
        ELSE IF Len(layouts.value) = 0
        THEN Throw("TypeError")
        ELSE LET documentSecondaryExtent ==
                     getExtentAlongSecondaryAxis(layouts.value, cfg)
                 pass == LayoutsForEach(cfg, layouts.value, documentSecondaryExtent,
                                        1, 0, << >>)
             IN  Return([dimensions |-> DocumentDimensions(cfg, pass.primaryDocPosition,
                                                           documentSecondaryExtent),
                         pageGroups |-> pass.pageGroups])

getDocumentLayout(cfg) ==
    LET layouts == LayoutGroups(cfg)
    IN  IF IsThrow(layouts)
        THEN layouts
        ELSE LET documentSecondaryExtent ==
                     getExtentAlongSecondaryAxis(layouts.value, cfg)
                 pass == LayoutsForEach(cfg, layouts.value, documentSecondaryExtent,
                                        1, 0, << >>)
             IN  Return([dimensions |-> DocumentDimensions(cfg, pass.primaryDocPosition,
                                                           documentSecondaryExtent),
                         pageGroups |-> pass.pageGroups])

---------------------------------------------------------------------------
(* The inputs explored *)

\* Raw page sizes at zoom level 0: 1.5 x 2 and 2 x 1.5 pixels
RawSizes ==
    { [w |-> Rat(3, 2), h |-> Rat(2, 1)],
      [w |-> Rat(2, 1), h |-> Rat(3, 2)] }

\* A page's dimension table d: each zoom level doubles the size
DimensionTable(size) ==
    [z \in 0..MaxZoom |-> [w |-> Rat(size.w.n * Pow2(z), size.w.d),
                           h |-> Rat(size.h.n * Pow2(z), size.h.d)]]

Pages ==
    { [d |-> DimensionTable(s), paged |-> p] : s \in RawSizes, p \in BOOLEAN }

SeqsUpTo(S, n) == UNION { [1..k -> S] : k \in 0..n }

Manifests ==
    { [pages |-> ps, paged |-> b] : ps \in SeqsUpTo(Pages, MaxPages), b \in BOOLEAN }

\* Longer manifests whose pages are all alike
LongManifests ==
    { [pages |-> [i \in 1..k |-> pg], paged |-> b] :
          k \in (MaxPages + 1)..MaxLongPages, pg \in Pages, b \in BOOLEAN }

\* The manifest of the documented example: 3 pages, each 100 x 200 at zoom 0
ExamplePage ==
    [d |-> DimensionTable([w |-> Rat(100, 1), h |-> Rat(200, 1)]), paged |-> TRUE]

ExampleManifest ==
    [pages |-> << ExamplePage, ExamplePage, ExamplePage >>, paged |-> FALSE]

\* Whole-pixel paddings whose six values sum to at most MaxPadSum, and
\* those with a page padding of one pixel and each document padding either
\* 0 or MaxPadSum, wide enough to hold the page padding
Paddings ==
    { [page     |-> [top |-> t[1], left |-> t[2]],
       document |-> [top |-> t[3], right |-> t[4], bottom |-> t[5], left |-> t[6]]] :
          t \in { u \in [1..6 -> 0..MaxPadSum] :
                      \/ u[1] + u[2] + u[3] + u[4] + u[5] + u[6] <= MaxPadSum
                      \/ /\ u[1] = 1 /\ u[2] = 1
                         /\ \A i \in 3..6 : u[i] \in {0, MaxPadSum} } }

NoPadding ==
    [page     |-> [top |-> 0, left |-> 0],
     document |-> [top |-> 0, right |-> 0, bottom |-> 0, left |-> 0]]

Config(manifest, zoomLevel, inBookLayout, verticallyOriented, padding) ==
    [manifest           |-> manifest,
     zoomLevel          |-> zoomLevel,
     inBookLayout       |-> inBookLayout,
     verticallyOriented |-> verticallyOriented,
     padding            |-> padding]

\* Every manifest at zoom level 0 under every padding
LayoutConfig(cfg) ==
    \E m \in Manifests \cup LongManifests \cup {ExampleManifest}, b \in BOOLEAN, v \in BOOLEAN,
       p \in Paddings :
        cfg = Config(m, 0, b, v, p)

\* Every manifest at the other zoom levels, without padding; the last of
\* these levels is in no page's dimension table
ZoomConfig(cfg) ==
    \E m \in Manifests, z \in 1..(MaxZoom + 1), b \in BOOLEAN, v \in BOOLEAN :
        cfg = Config(m, z, b, v, NoPadding)

\* Pages whose dimension tables stop at different zoom levels
ShallowPages ==
    { [d     |-> [z \in 0..k |-> DimensionTable([w |-> Rat(3, 2), h |-> Rat(2, 1)])[z]],
       paged |-> p] : k \in 0..MaxZoom, p \in BOOLEAN }

\* Manifests of such pages at the zoom levels that some tables hold and
\* others do not, without padding
ShallowConfig(cfg) ==
    \E ps \in SeqsUpTo(ShallowPages, MaxPages), mp \in BOOLEAN, z \in 1..MaxZoom,
       b \in BOOLEAN, v \in BOOLEAN :
        cfg = Config([pages |-> ps, paged |-> mp], z, b, v, NoPadding)

---------------------------------------------------------------------------
(* The simple-auth plugin: values *)

\* A JavaScript value that is not null; this.authToken = "abc" is Val("abc")
Val(v) == [value |-> v]

\* core.settings.simpleAuthTokenUrl, as the URL parts an anchor element gives
AuthTokenUrl ==
    [href     |-> "https://auth.example.org:8443/token",
     protocol |-> "https:",
     hostname |-> "auth.example.org",
     port     |-> "8443"]

\* window.location of the page the viewer runs in
WindowLocation ==
    [href     |-> "https://viewer.example.org/",
     protocol |-> "https:",
     hostname |-> "viewer.example.org",
     port     |-> ""]

\* getOrigin(url): the postMessage-style origin of url, of the window when
\* url is undefined
getOrigin(url) ==
    LET urlHolder == IF url = Undefined THEN WindowLocation ELSE url
    IN  urlHolder.protocol \o "//" \o urlHolder.hostname
            \o (IF urlHolder.port # "" THEN ":" \o urlHolder.port ELSE "")

\* this.serviceOrigin
ServiceOrigin == getOrigin(AuthTokenUrl)

\* An origin other than the token service's
OtherOrigin == "https://elsewhere.example.net"

\* The access tokens and the error codes the token service may send
Tokens == {"tokenA", "tokenB"}

Errors == {"missingCredentials"}

\* The header maps core.settings.addRequestHeaders starts with
InitialHeaders ==
    { Null, Val([Accept |-> "application/json"]) }

\* The JavaScript values a message id may be, besides null and undefined:
\* an integer number, a string (its UTF-16 code units), a boolean, a BigInt,
\* an array of such values, a plain object
Num(n) == [type |-> "number", number |-> n]

Str(units) == [type |-> "string", units |-> units]

Bool(b) == [type |-> "boolean", boolean |-> b]

BigInt(n) == [type |-> "bigint", bigint |-> n]

Arr(elements) == [type |-> "array", elements |-> elements]

Obj == [type |-> "object"]

\* The code unit of each character written in this module
CodeOf ==
    LET digits == "0123456789"
        upper  == "ABCDEFGHIJKLMNOPQRSTUVWXYZ"
        lower  == "abcdefghijklmnopqrstuvwxyz"
    IN  [c \in {SubSeq(digits, i, i) : i \in 1..Len(digits)} |->
            47 + (CHOOSE i \in 1..Len(digits) : SubSeq(digits, i, i) = c)]
        @@ [c \in {SubSeq(upper, i, i) : i \in 1..Len(upper)} |->
            64 + (CHOOSE i \in 1..Len(upper) : SubSeq(upper, i, i) = c)]
        @@ [c \in {SubSeq(lower, i, i) : i \in 1..Len(lower)} |->
            96 + (CHOOSE i \in 1..Len(lower) : SubSeq(lower, i, i) = c)]
        @@ (" " :> 32) @@ ("+" :> 43) @@ ("," :> 44) @@ ("-" :> 45)
        @@ ("." :> 46) @@ ("[" :> 91) @@ ("]" :> 93)

Code(c) == CodeOf[c]

\* The code units of a string of such characters
CodeUnits(s) == [i \in 1..Len(s) |-> CodeOf[SubSeq(s, i, i)]]

\* The white space and line terminators the conversion of a string to a
\* number strips: tab, line feed, vertical tab, form feed, carriage return,
\* space, no-break space, the other space separators, the line and the
\* paragraph separator, the byte order mark
StrWhiteSpace ==
    {9, 10, 11, 12, 13, 32, 160, 5760, 8232, 8233, 8239, 8287, 12288, 65279}
        \cup 8192..8202

RECURSIVE TrimStart(_)
TrimStart(units) ==
    IF units # << >> /\ Head(units) \in StrWhiteSpace
    THEN TrimStart(Tail(units))
    ELSE units

RECURSIVE TrimEnd(_)
TrimEnd(units) ==
    IF units # << >> /\ units[Len(units)] \in StrWhiteSpace
    THEN TrimEnd(SubSeq(units, 1, Len(units) - 1))
    ELSE units

\* The characters the grammar of numeric strings names
Zero == Code("0")

Minus == Code("-")

Signs == {Code("+"), Code("-")}

DecimalPoint == {Code(".")}

ExponentIndicators == {Code("e"), Code("E")}

HexPrefix == {Code("x"), Code("X")}

OctalPrefix == {Code("o"), Code("O")}

BinaryPrefix == {Code("b"), Code("B")}

InfinityLiteral == CodeUnits("Infinity")

\* The value of each code unit as a hexadecimal digit, -1 for those that
\* are no digit
DigitOf ==
    [c \in 0..65535 |->
        IF c \in Code("0")..Code("9") THEN c - Code("0")
        ELSE IF c \in Code("a")..Code("f") THEN c - Code("a") + 10
        ELSE IF c \in Code("A")..Code("F") THEN c - Code("A") + 10
        ELSE -1]

\* The value of the digit c in `radix`, -1 when c is no such digit
DigitValue(c, radix) ==
    IF DigitOf[c] < radix THEN DigitOf[c] ELSE -1

AllDigits(units, radix) ==
    \A i \in 1..Len(units) : DigitValue(units[i], radix) >= 0

\* The number the first n digits of `units` denote in `radix`
RECURSIVE DigitsValue(_, _, _)
DigitsValue(units, radix, n) ==
    IF n = 0
    THEN 0
    ELSE DigitsValue(units, radix, n - 1) * radix + DigitOf[units[n]]

RECURSIVE Pow10(_)
Pow10(e) == IF e = 0 THEN 1 ELSE 10 * Pow10(e - 1)

\* The index of the first code unit of `units` in `set`, 0 when there is none
FirstIndex(units, set) ==
    IF \E i \in 1..Len(units) : units[i] \in set
    THEN CHOOSE i \in 1..Len(units) :
             units[i] \in set /\ \A j \in 1..(i - 1) : units[j] \notin set
    ELSE 0

\* What a string converts to: NaN, an infinity, or the number num / den
NaN == [kind |-> "NaN"]

Infinity == [kind |-> "Infinity"]

Finite(num, den) == [kind |-> "finite", num |-> num, den |-> den]

\* 0x, 0o and 0b literals: at least one digit of the radix, no sign
NonDecimalIntegerLiteral(digits, radix) ==
    IF digits # << >> /\ AllDigits(digits, radix)
    THEN Finite(DigitsValue(digits, radix, Len(digits)), 1)
    ELSE NaN

\* Infinity, or digits with an optional fraction and an optional exponent;
\* the value is exact (the strings explored are too short for a double to
\* round them)
StrUnsignedDecimalLiteral(units) ==
    IF units = InfinityLiteral
    THEN Infinity
    ELSE LET e        == FirstIndex(units, ExponentIndicators)
             mantissa == IF e = 0 THEN units ELSE SubSeq(units, 1, e - 1)
             exponent == IF e = 0 THEN << >> ELSE SubSeq(units, e + 1, Len(units))
             expSigned == exponent # << >> /\ Head(exponent) \in Signs
             expDigits == IF expSigned THEN Tail(exponent) ELSE exponent
             dot      == FirstIndex(mantissa, DecimalPoint)
             int      == IF dot = 0 THEN mantissa ELSE SubSeq(mantissa, 1, dot - 1)
             frac     == IF dot = 0 THEN << >> ELSE SubSeq(mantissa, dot + 1, Len(mantissa))
         IN  IF \/ ~AllDigits(int, 10)
                \/ ~AllDigits(frac, 10)
                \/ Len(int) + Len(frac) = 0
                \/ e # 0 /\ (expDigits = << >> \/ ~AllDigits(expDigits, 10))
             THEN NaN
             ELSE LET m     == DigitsValue(int \o frac, 10, Len(int) + Len(frac))
                      exp   == DigitsValue(expDigits, 10, Len(expDigits))
                      scale == (IF expSigned /\ Head(exponent) = Minus
                                THEN 0 - exp ELSE exp) - Len(frac)
                  IN  IF scale >= 0
                      THEN Finite(m * Pow10(scale), 1)
                      ELSE Finite(m, Pow10(0 - scale))

\* StringToNumber(units): the number a string is converted to in a
\* comparison with a number
StringToNumber(units) ==
    LET trimmed == TrimEnd(TrimStart(units))
        prefixed(letters) ==
            Len(trimmed) >= 2 /\ trimmed[1] = Zero /\ trimmed[2] \in letters
    IN  IF trimmed = << >>
        THEN Finite(0, 1)
        ELSE IF prefixed(HexPrefix)
        THEN NonDecimalIntegerLiteral(SubSeq(trimmed, 3, Len(trimmed)), 16)
        ELSE IF prefixed(OctalPrefix)
        THEN NonDecimalIntegerLiteral(SubSeq(trimmed, 3, Len(trimmed)), 8)
        ELSE IF prefixed(BinaryPrefix)
        THEN NonDecimalIntegerLiteral(SubSeq(trimmed, 3, Len(trimmed)), 2)
        ELSE LET signed   == trimmed[1] \in Signs
                 unsigned == StrUnsignedDecimalLiteral(IF signed THEN Tail(trimmed)
                                                       ELSE trimmed)
             IN  IF trimmed[1] = Minus /\ unsigned.kind = "finite"
                 THEN Finite(0 - unsigned.num, unsigned.den)
                 ELSE unsigned

\* The decimal digits of an integer, as a number is converted to a string
RECURSIVE NumberToString(_)
NumberToString(n) ==
    IF n < 0
    THEN <<Minus>> \o NumberToString(0 - n)
    ELSE IF n < 10
    THEN <<Zero + n>>
    ELSE Append(NumberToString(n \div 10), Zero + (n % 10))

Comma == CodeUnits(",")

TrueLiteral == CodeUnits("true")

FalseLiteral == CodeUnits("false")

ObjectLiteral == CodeUnits("[object Object]")

\* The string an array or an object is converted to in a comparison with a
\* number: an array joins the strings of its elements with ",", null and
\* undefined elements giving the empty string
RECURSIVE JSToString(_)
RECURSIVE ArrayJoin(_)
ArrayJoin(elements) ==
    IF elements = << >>
    THEN << >>
    ELSE IF Len(elements) = 1
    THEN JSToString(elements[1])
    ELSE JSToString(elements[1]) \o Comma \o ArrayJoin(Tail(elements))

JSToString(x) ==
    IF "type" \notin DOMAIN x
    THEN << >>
    ELSE CASE x.type = "string"  -> x.units
           [] x.type = "number"  -> NumberToString(x.number)
           [] x.type = "bigint"  -> NumberToString(x.bigint)
           [] x.type = "boolean" -> IF x.boolean THEN TrueLiteral ELSE FalseLiteral
           [] x.type = "array"   -> ArrayJoin(x.elements)
           [] x.type = "object"  -> ObjectLiteral

\* x == n for a number n: the loose comparison converts x to a number; null
\* and undefined equal no number
LooseEqualsNumber(x, n) ==
    IF "type" \notin DOMAIN x
    THEN FALSE
    ELSE CASE x.type = "number"  -> x.number = n
           [] x.type = "bigint"  -> x.bigint = n
           [] x.type = "boolean" -> (IF x.boolean THEN 1 ELSE 0) = n
           [] x.type \in {"string", "array", "object"} ->
                  LET number == StringToNumber(JSToString(x))
                  IN  number.kind = "finite" /\ number.num = n * number.den

\* The url the token iframe is pointed at for message id `id`
TokenUrl(id) ==
    AuthTokenUrl.href \o "?messageId=" \o ToString(id)
        \o "&origin=" \o getOrigin(Undefined)

\* The values Date.now() takes
ClockValues == Epoch..(Epoch + MaxClock)

\* The message ids that are not numbers: the first id as a string, as the
\* token service reads it from the query string, the same with a leading
\* vertical tab and a fraction, the first id wrapped in an array, and null
OtherMessageIds ==
    { Str(NumberToString(Epoch)),
      Str(<<11>> \o NumberToString(Epoch) \o CodeUnits(".0")),
      Arr(<<Num(Epoch)>>),
      Null }

\* What the token service answers a token request with: the id of the
\* request and an access token or an error; the first request is also
\* answered with a second token
AnswerData ==
    { [messageId |-> Num(m), accessToken |-> Val("tokenA")] : m \in ClockValues }
        \cup { [messageId |-> Num(m), error |-> Val(e)] : m \in ClockValues, e \in Errors }
        \cup { [messageId |-> Num(Epoch), accessToken |-> Val("tokenB")] }

\* The data of the postMessage events explored: the answers of the token
\* service; an access token that is null (an error that is null has the
\* same effect), a message with neither a token nor an error, a message
\* with no messageId; a token with each of the ids that are not numbers
MessageData ==
    AnswerData
        \cup { [messageId |-> Num(Epoch + MaxClock), accessToken |-> Null],
               [messageId |-> Num(Epoch)],
               [accessToken |-> Val("tokenA")] }
        \cup { [messageId |-> id, accessToken |-> Val("tokenA")] : id \in OtherMessageIds }

\* What another origin sends: what the token service would answer the
\* first token request with
ForgedData ==
    { data \in AnswerData : data.messageId = Num(Epoch) }

MessageEvents ==
    { [origin |-> ServiceOrigin, data |-> d] : d \in MessageData }
        \cup { [origin |-> OtherOrigin, data |-> d] : d \in ForgedData }

\* The statuses a failed manifest load is reported with
FailureStatuses == {401, 500}

---------------------------------------------------------------------------
(* The simple-auth plugin: methods and handlers *)

\* Mutant of setAuthHeader: the Authorization header is set only in a header
\* map that exists already
setAuthHeader_OnlyExistingMap(headers, token) ==
    IF token # Null
    THEN IF headers = Null
         THEN headers
         ELSE Val([k \in (DOMAIN headers.value) \cup {"Authorization"} |->
                      IF k = "Authorization" THEN "Bearer " \o token.value
                      ELSE headers.value[k]])
    ELSE IF headers # Null
    THEN Val([k \in (DOMAIN headers.value) \ {"Authorization"} |-> headers.value[k]])
    ELSE headers

\* setAuthHeader(token) applied to the header map `headers`; the result is
\* the new core.settings.addRequestHeaders
setAuthHeader(headers, token) ==
    IF token # Null
    THEN LET h == IF headers = Null THEN << >> ELSE headers.value
         IN  Val([k \in (DOMAIN h) \cup {"Authorization"} |->
                     IF k = "Authorization" THEN "Bearer " \o token.value ELSE h[k]])
    ELSE IF headers # Null
    THEN Val([k \in (DOMAIN headers.value) \ {"Authorization"} |-> headers.value[k]])
    ELSE headers

\* core.publicInstance._loadOrFetchObjectData(): the manifest is requested
\* again with the request headers configured at that moment
LoadOrFetchObjectData(requests, headers) ==
    requests (+) SetToBag({[headers |-> headers]})

\* requestAuthToken(): the token iframe exists afterwards and is pointed at
\* the token service with a message id taken from the clock
requestAuthToken ==
    /\ authTokenId' = Val(now)
    /\ tokenFrame' = [src |-> TokenUrl(now)]
    /\ tokenRequests' = Append(tokenRequests, now)

\* core.showError(message): a new error dialog is appended to the viewer;
\* its login button has no click listener yet
showError(elements) == Append(elements, 0)

\* showLoginMessage(response): the error dialog with the login button is
\* shown, and the click listener is added to the login button
\* document.querySelector finds, the first one of the document
showLoginMessage ==
    errorElements' = [showError(errorElements) EXCEPT ![1] = @ + 1]

\* openLoginWindow() with the login windows `windows` open; `opened` is
\* whether window.open returned a window; the result is the login windows
\* afterwards
openLoginWindow(windows, opened, opener) ==
    IF ~opened
    THEN windows
    ELSE windows (+) SetToBag({[openedAt |-> now,
                                closed   |-> FALSE,
                                opener   |-> opener,
                                requests |-> 0]})

\* The login windows `windows` after one of them, `loginWindow`, has become
\* `changed`
WindowChanged(windows, loginWindow, changed) ==
    (windows (-) SetToBag({loginWindow})) (+) SetToBag({changed})

\* A click on a login button with `listeners` click listeners: each of them
\* calls openLoginWindow() and removes the first error dialog of the
\* document (with none left it throws a TypeError, which changes nothing);
\* opened[k] is whether window.open returned a window to the k-th of them;
\* the result is the login windows and the error dialogs afterwards
RECURSIVE LoginButtonClick(_, _, _, _)
LoginButtonClick(listeners, windows, elements, opened) ==
    IF listeners = 0
    THEN [windows |-> windows, elements |-> elements]
    ELSE LoginButtonClick(listeners - 1,
                          openLoginWindow(windows, Head(opened), "dialog"),
                          IF elements = << >> THEN elements ELSE Tail(elements),
                          Tail(opened))

\* How many of the calls of window.open return a window
OpenedCount(opened) == Cardinality({k \in 1..Len(opened) : opened[k]})

\* Whether window.open may return a window `count` times
CanOpen(count) ==
    count > 0 => BagCardinality(loginWindows) + count <= MaxWindows
                     /\ now < Epoch + MaxClock

\* Mutant of ManifestFetchErrorHandler: a token is requested whenever no
\* token is held, whether or not an error was recorded
ManifestFetchErrorHandler_TokenOnly(response) ==
    IF response.status = 401
    THEN IF authToken = Null
         THEN /\ requestAuthToken
              /\ UNCHANGED <<authToken, authError, addRequestHeaders, errorElements>>
              /\ lastEvent' = [handler |-> "ManifestFetchError",
                               status |-> response.status, threw |-> TRUE]
         ELSE /\ showLoginMessage
              /\ UNCHANGED <<pluginVars, tokenRequests>>
              /\ lastEvent' = [handler |-> "ManifestFetchError",
                               status |-> response.status, threw |-> TRUE]
    ELSE /\ UNCHANGED <<pluginVars, tokenRequests, errorElements>>
         /\ lastEvent' = [handler |-> "ManifestFetchError",
                          status |-> response.status, threw |-> FALSE]

\* The subscriber of "ManifestFetchError"; lastEvent'.threw is whether it
\* threw "cancel error handler"
ManifestFetchErrorHandler(response) ==
    IF response.status = 401
    THEN IF authToken = Null /\ authError = Null
         THEN /\ requestAuthToken
              /\ UNCHANGED <<authToken, authError, addRequestHeaders, errorElements>>
              /\ lastEvent' = [handler |-> "ManifestFetchError",
                               status |-> response.status, threw |-> TRUE]
         ELSE /\ showLoginMessage
              /\ UNCHANGED <<pluginVars, tokenRequests>>
              /\ lastEvent' = [handler |-> "ManifestFetchError",
                               status |-> response.status, threw |-> TRUE]
    ELSE /\ UNCHANGED <<pluginVars, tokenRequests, errorElements>>
         /\ lastEvent' = [handler |-> "ManifestFetchError",
                          status |-> response.status, threw |-> FALSE]

\* The message ids of the messages explored
ExploredMessageIds ==
    { data.messageId : data \in { d \in MessageData : "messageId" \in DOMAIN d } }

\* x == n for the message ids x of the messages explored and the values n
\* of Date.now(), computed once
LooselyEqual ==
    [x \in ExploredMessageIds |-> [n \in ClockValues |-> LooseEqualsNumber(x, n)]]

\* data.messageId != this.authTokenId is false: the two are loosely equal.
\* A missing messageId is undefined; null and undefined equal each other and
\* nothing else; any other value is converted to a number and compared with
\* the id, which is a number
MessageIdMatches(data, id) ==
    LET messageId == IF "messageId" \in DOMAIN data THEN data.messageId ELSE Undefined
    IN  IF id \in {Null, Undefined}
        THEN messageId \in {Null, Undefined}
        ELSE IF messageId \in ExploredMessageIds /\ id.value \in ClockValues
        THEN LooselyEqual[messageId][id.value]
        ELSE LooseEqualsNumber(messageId, id.value)

\* Mutant of MessageHandler: the manifest is reloaded before the
\* Authorization header is set
MessageHandler_ReloadFirst(event) ==
    LET origin == event.origin
        data   == event.data
    IN  IF origin # ServiceOrigin
        THEN /\ UNCHANGED <<authToken, authError, addRequestHeaders, manifestRequests>>
             /\ lastEvent' = [handler |-> "message", returned |-> "origin"]
        ELSE IF ~MessageIdMatches(data, authTokenId)
        THEN /\ UNCHANGED <<authToken, authError, addRequestHeaders, manifestRequests>>
             /\ lastEvent' = [handler |-> "message", returned |-> "messageId"]
        ELSE IF "accessToken" \in DOMAIN data
        THEN /\ authToken' = data.accessToken
             /\ authError' = Null
             /\ manifestRequests' = LoadOrFetchObjectData(manifestRequests, addRequestHeaders)
             /\ addRequestHeaders' = setAuthHeader(addRequestHeaders, data.accessToken)
             /\ lastEvent' = [handler |-> "message", returned |-> "end"]
        ELSE IF "error" \in DOMAIN data
        THEN /\ authError' = data.error
             /\ authToken' = Null
             /\ manifestRequests' = LoadOrFetchObjectData(manifestRequests, addRequestHeaders)
             /\ addRequestHeaders' = setAuthHeader(addRequestHeaders, Null)
             /\ lastEvent' = [handler |-> "message", returned |-> "end"]
        ELSE /\ UNCHANGED <<authToken, authError, addRequestHeaders, manifestRequests>>
             /\ lastEvent' = [handler |-> "message", returned |-> "end"]

\* Mutant of MessageHandler: the messageId of a message is not looked at
MessageHandler_AnyMessageId(event) ==
    LET origin == event.origin
        data   == event.data
    IN  IF origin # ServiceOrigin
        THEN /\ UNCHANGED <<authToken, authError, addRequestHeaders, manifestRequests>>
             /\ lastEvent' = [handler |-> "message", returned |-> "origin"]
        ELSE IF "accessToken" \in DOMAIN data
        THEN /\ authToken' = data.accessToken
             /\ authError' = Null
             /\ addRequestHeaders' = setAuthHeader(addRequestHeaders, data.accessToken)
             /\ manifestRequests' = LoadOrFetchObjectData(manifestRequests, addRequestHeaders')
             /\ lastEvent' = [handler |-> "message", returned |-> "end"]
        ELSE IF "error" \in DOMAIN data
        THEN /\ authError' = data.error
             /\ authToken' = Null
             /\ addRequestHeaders' = setAuthHeader(addRequestHeaders, Null)
             /\ manifestRequests' = LoadOrFetchObjectData(manifestRequests, addRequestHeaders')
             /\ lastEvent' = [handler |-> "message", returned |-> "end"]
        ELSE /\ UNCHANGED <<authToken, authError, addRequestHeaders, manifestRequests>>
             /\ lastEvent' = [handler |-> "message", returned |-> "end"]

\* The listener of window "message" events; lastEvent'.returned is where it
\* returned: at the check of the origin, at the check of the messageId, or
\* at its end
MessageHandler(event) ==
    LET origin == event.origin
        data   == event.data
    IN  IF origin # ServiceOrigin
        THEN /\ UNCHANGED <<authToken, authError, addRequestHeaders, manifestRequests>>
             /\ lastEvent' = [handler |-> "message", returned |-> "origin"]
        ELSE IF ~MessageIdMatches(data, authTokenId)
        THEN /\ UNCHANGED <<authToken, authError, addRequestHeaders, manifestRequests>>
             /\ lastEvent' = [handler |-> "message", returned |-> "messageId"]
        ELSE IF "accessToken" \in DOMAIN data
        THEN /\ authToken' = data.accessToken
             /\ authError' = Null
             /\ addRequestHeaders' = setAuthHeader(addRequestHeaders, data.accessToken)
             /\ manifestRequests' = LoadOrFetchObjectData(manifestRequests, addRequestHeaders')
             /\ lastEvent' = [handler |-> "message", returned |-> "end"]
        ELSE IF "error" \in DOMAIN data
        THEN /\ authError' = data.error
             /\ authToken' = Null
             /\ addRequestHeaders' = setAuthHeader(addRequestHeaders, Null)
             /\ manifestRequests' = LoadOrFetchObjectData(manifestRequests, addRequestHeaders')
             /\ lastEvent' = [handler |-> "message", returned |-> "end"]
        ELSE /\ UNCHANGED <<authToken, authError, addRequestHeaders, manifestRequests>>
             /\ lastEvent' = [handler |-> "message", returned |-> "end"]

\* Mutant of LoginWindowPoll: the token is requested at the first poll,
\* whether or not the window is closed
LoginWindowPoll_IgnoresClosed(loginWindow) ==
    /\ loginWindows' = WindowChanged(loginWindows, loginWindow,
                                     [loginWindow EXCEPT !.requests = @ + 1])
    /\ requestAuthToken
    /\ lastEvent' = [handler |-> "none"]

\* The setInterval callback of the login window `loginWindow`
LoginWindowPoll(loginWindow) ==
    IF loginWindow.closed
    THEN /\ loginWindows' = WindowChanged(loginWindows, loginWindow,
                                          [loginWindow EXCEPT !.requests = @ + 1])
         /\ requestAuthToken
         /\ lastEvent' = [handler |-> "none"]
    ELSE /\ UNCHANGED <<loginWindows, authTokenId, tokenFrame, tokenRequests>>
         /\ lastEvent' = [handler |-> "none"]

(* The simple-auth plugin: the state machine *)

\* The plugin as its constructor leaves it, with the header map `headers`
\* configured and the manifest requests `requests` in flight
Constructed(headers, requests) ==
    /\ authToken = Null
    /\ authError = Null
    /\ authTokenId = Null
    /\ addRequestHeaders = headers
    /\ tokenFrame = Null
    /\ errorElements = << >>
    /\ loginWindows = EmptyBag
    /\ tokenRequests = << >>
    /\ manifestRequests = requests
    /\ delivered = 0
    /\ now = Epoch
    /\ lastEvent = [handler |-> "none"]

\* The viewer has been created and its first manifest request is in
\* flight; no layout has been asked for
AuthInit ==
    /\ \E headers \in InitialHeaders :
           Constructed(headers, SetToBag({[headers |-> headers]}))
    /\ config = Null
    /\ result = [kind |-> "none"]
    /\ pc = "start"

\* The requests in flight
Pending == BagToSet(manifestRequests)

\* Manifest request r fails with `status`: the viewer publishes
\* "ManifestFetchError" and the plugin's subscriber runs
ManifestFetchError(r, status) ==
    /\ r \in Pending
    /\ manifestRequests' = manifestRequests (-) SetToBag({r})
    /\ ManifestFetchErrorHandler([status |-> status])
    /\ UNCHANGED <<loginWindows, delivered, now, layoutVars>>

\* Manifest request r succeeds
ManifestLoaded(r) ==
    /\ r \in Pending
    /\ manifestRequests' = manifestRequests (-) SetToBag({r})
    /\ lastEvent' = [handler |-> "none"]
    /\ UNCHANGED <<pluginVars, errorElements, loginWindows, tokenRequests,
                   delivered, now, layoutVars>>

\* A postMessage event reaches the window
ReceiveMessage(event) ==
    /\ delivered < MaxMessages
    /\ delivered' = delivered + 1
    /\ MessageHandler(event)
    /\ UNCHANGED <<authTokenId, tokenFrame, errorElements, loginWindows,
                   tokenRequests, now, layoutVars>>

\* The user clicks the login button of error dialog `button`
ClickLogin(button, opened) ==
    /\ button \in 1..Len(errorElements)
    /\ opened \in [1..errorElements[button] -> BOOLEAN]
    /\ CanOpen(OpenedCount(opened))
    /\ LET after == LoginButtonClick(errorElements[button], loginWindows,
                                     errorElements, opened)
       IN  /\ loginWindows' = after.windows
           /\ errorElements' = after.elements
    /\ lastEvent' = [handler |-> "none"]
    /\ UNCHANGED <<pluginVars, tokenRequests, manifestRequests, delivered,
                   now, layoutVars>>

\* handleClick(): the user clicks the toolbar icon
HandleClick(opened) ==
    /\ CanOpen(IF opened THEN 1 ELSE 0)
    /\ IF authToken = Null \/ authError # Null
       THEN loginWindows' = openLoginWindow(loginWindows, opened, "icon")
       ELSE UNCHANGED loginWindows
    /\ lastEvent' = [handler |-> "none"]
    /\ UNCHANGED <<pluginVars, errorElements, tokenRequests, manifestRequests,
                   delivered, now, layoutVars>>

\* The login windows there are
Windows == BagToSet(loginWindows)

\* The user closes the login window `loginWindow`
CloseLoginWindow(loginWindow) ==
    /\ loginWindow \in Windows
    /\ ~loginWindow.closed
    /\ loginWindows' = WindowChanged(loginWindows, loginWindow,
                                     [loginWindow EXCEPT !.closed = TRUE])
    /\ lastEvent' = [handler |-> "none"]
    /\ UNCHANGED <<pluginVars, errorElements, tokenRequests, manifestRequests,
                   delivered, now, layoutVars>>

\* The interval timer of the login window `loginWindow` fires
Poll(loginWindow) ==
    /\ loginWindow \in Windows
    /\ loginWindow.requests = 0
    /\ now > loginWindow.openedAt
    /\ LoginWindowPoll(loginWindow)
    /\ UNCHANGED <<authToken, authError, addRequestHeaders, errorElements,
                   manifestRequests, delivered, now, layoutVars>>

\* Time passes
Tick ==
    /\ now < Epoch + MaxClock
    /\ now' = now + 1
    /\ lastEvent' = [handler |-> "none"]
    /\ UNCHANGED <<pluginVars, errorElements, loginWindows, tokenRequests,
                   manifestRequests, delivered, layoutVars>>

AuthNext ==
    \/ \E r \in Pending, status \in FailureStatuses :
           ManifestFetchError(r, status)
    \/ \E r \in Pending : ManifestLoaded(r)
    \/ \E event \in MessageEvents : ReceiveMessage(event)
    \/ \E button \in 1..Len(errorElements) :
           \E opened \in [1..errorElements[button] -> BOOLEAN] :
               ClickLogin(button, opened)
    \/ \E opened \in BOOLEAN : HandleClick(opened)
    \/ \E loginWindow \in Windows : CloseLoginWindow(loginWindow)
    \/ \E loginWindow \in Windows : Poll(loginWindow)
    \/ Tick

AuthSpec == AuthInit /\ [][AuthNext]_vars

\* The timer of a closed login window fires
ClosedWindowPolled ==
    \E loginWindow \in Windows : loginWindow.closed /\ Poll(loginWindow)

\* The viewer has been created with a header map configured, and its first
\* manifest request is in flight
AuthLiveInit ==
    /\ AuthInit
    /\ addRequestHeaders # Null

\* The plugin with its timers: the interval timer of a login window keeps
\* firing until it is cleared, and time passes.  Nothing is assumed of the
\* network, the token service or the user.
AuthLiveSpec ==
    /\ AuthLiveInit
    /\ [][AuthNext]_vars
    /\ WF_vars(ClosedWindowPolled)
    /\ WF_vars(Tick)

---------------------------------------------------------------------------
(* The state machine: one call of getDocumentLayout *)

Init ==
    /\ LayoutConfig(config) \/ ZoomConfig(config) \/ ShallowConfig(config)
    /\ result = [kind |-> "none"]
    /\ pc = "start"
    /\ Constructed(Null, EmptyBag)

\* The caller invokes getDocumentLayout(config)
CallGetDocumentLayout ==
    /\ pc = "start"
    /\ result' = getDocumentLayout(config)
    /\ pc' = "done"
    /\ UNCHANGED <<config, authVars>>

Next == CallGetDocumentLayout

Spec == Init /\ [][Next]_vars

---------------------------------------------------------------------------
(* Vocabulary of the properties *)

\* The call has returned a layout
Returned == pc = "done" /\ result.kind = "return"

PageCount == Len(config.manifest.pages)

\* The returned pageGroups
Groups == result.value.pageGroups

\* The returned dimensions
Dimensions == result.value.dimensions

BookMode == config.inBookLayout

Vertical == config.verticallyOriented

\* Book mode without page skipping
BookNoSkipping == BookMode /\ ~config.manifest.paged

\* Leading and trailing edge of a region on the primary axis
LeadingEdge(region) == IF Vertical THEN region.top ELSE region.left

TrailingEdge(region) == IF Vertical THEN region.bottom ELSE region.right

\* The page indices of a group's PageOffsets, in order
OffsetCount(g) == Len(g.layout.pageOffsets)

IsPair(g) ==
    /\ OffsetCount(g) = 2
    /\ g.layout.pageOffsets[2].index = g.layout.pageOffsets[1].index + 1

IsSingle(g, index) ==
    /\ OffsetCount(g) = 1
    /\ g.layout.pageOffsets[1].index = index

---------------------------------------------------------------------------
(* C1 *)

\* C1: in single-page mode getDocumentLayout returns exactly one PageGroup
\* per manifest page, and the k-th PageGroup holds the single PageOffset
\* {index: k, top: 0, left: 0}: group order is page order and no page is
\* skipped, paged manifest or not.
C1_SinglesOneGroupPerPage ==
    (Returned /\ ~BookMode) =>
        /\ Len(Groups) = PageCount
        /\ \A k \in 0..(PageCount - 1) :
               /\ Groups[k + 1].index = k
               /\ Groups[k + 1].layout.pageOffsets =
                      << [index |-> k, top |-> 0, left |-> 0] >>

\* A paged manifest of several pages, one of them not marked paged, laid out
\* in single-page mode
C1_Witness ==
    /\ Returned /\ ~BookMode
    /\ config.manifest.paged
    /\ PageCount >= 3
    /\ \E i \in 1..PageCount : ~config.manifest.pages[i].paged
    /\ \E i \in 1..PageCount : config.manifest.pages[i].paged

---------------------------------------------------------------------------
(* C2 *)

\* Every group holds two PageOffsets with consecutive page indices
AllPairs == \A i \in 1..Len(Groups) : IsPair(Groups[i])

\* C2, as claimed: in book mode without page skipping and with an even
\* number N of pages, in both orientations, there are exactly N/2 groups and
\* every group holds two PageOffsets with consecutive indices.
C2_Original ==
    (Returned /\ BookNoSkipping /\ PageCount % 2 = 0) =>
        /\ Len(Groups) = PageCount \div 2
        /\ AllPairs

\* C2, amended: in book mode without page skipping and with an even number
\* N of pages, horizontal orientation gives exactly N/2 groups, each holding
\* two PageOffsets with consecutive indices; vertical orientation with
\* N >= 2 gives N/2 + 1 groups: page 0 alone in the first, page N-1 alone in
\* the last, and two consecutive pages in every group between.
C2_EvenBookGroups ==
    (Returned /\ BookNoSkipping /\ PageCount % 2 = 0) =>
        IF Vertical /\ PageCount >= 2
        THEN /\ Len(Groups) = PageCount \div 2 + 1
             /\ IsSingle(Groups[1], 0)
             /\ IsSingle(Groups[Len(Groups)], PageCount - 1)
             /\ \A i \in 2..(Len(Groups) - 1) : IsPair(Groups[i])
        ELSE /\ Len(Groups) = PageCount \div 2
             /\ AllPairs

\* Four pages in vertical book mode without skipping: a cover, a spread and
\* a trailing page
C2_Witness ==
    /\ Returned /\ BookNoSkipping /\ Vertical
    /\ PageCount = 4
    /\ Len(Groups) = 3

---------------------------------------------------------------------------
(* C3 *)

\* C3, as claimed: in book mode without page skipping and with an odd number
\* of pages, in both orientations, the last group holds exactly one
\* PageOffset.
C3_Original ==
    (Returned /\ BookNoSkipping /\ PageCount % 2 = 1) =>
        /\ Len(Groups) >= 1
        /\ OffsetCount(Groups[Len(Groups)]) = 1

\* C3, amended: in book mode without page skipping and with an odd number N
\* of pages, exactly one group holds a single PageOffset and every other
\* group holds two consecutive pages; in horizontal orientation it is the
\* last group and holds the trailing page N-1, in vertical orientation it is
\* the first group and holds page 0 (so for N >= 3 the last group is a pair).
C3_OddBookGroups ==
    (Returned /\ BookNoSkipping /\ PageCount % 2 = 1) =>
        /\ Len(Groups) = (PageCount + 1) \div 2
        /\ IF Vertical
           THEN /\ IsSingle(Groups[1], 0)
                /\ \A i \in 2..Len(Groups) : IsPair(Groups[i])
           ELSE /\ IsSingle(Groups[Len(Groups)], PageCount - 1)
                /\ \A i \in 1..(Len(Groups) - 1) : IsPair(Groups[i])

\* Three pages in vertical book mode without skipping: the last group is a
\* spread
C3_Witness ==
    /\ Returned /\ BookNoSkipping /\ Vertical
    /\ PageCount = 3
    /\ OffsetCount(Groups[Len(Groups)]) = 2

---------------------------------------------------------------------------
(* C4 *)

\* C4: in every returned layout the trailing edge of each region on the
\* primary axis (bottom when vertical, right otherwise) equals the leading
\* edge (top, left) of the next region, and the first region starts at 0.
C4_RegionsAbut ==
    Returned =>
        /\ Len(Groups) >= 1 => LeadingEdge(Groups[1].region) = 0
        /\ \A i \in 1..(Len(Groups) - 1) :
               TrailingEdge(Groups[i].region) = LeadingEdge(Groups[i + 1].region)

\* Three groups placed with a page padding on both axes
C4_Witness ==
    /\ Returned
    /\ Len(Groups) >= 3
    /\ config.padding.page.top > 0
    /\ config.padding.page.left > 0
    /\ LeadingEdge(Groups[3].region) > LeadingEdge(Groups[2].region)

---------------------------------------------------------------------------
(* C5 *)

Abs(x) == IF x >= 0 THEN x ELSE -x

\* A group's offset on the secondary axis, in half pixels
SecondaryOffset(g) == IF Vertical THEN g.region.left ELSE g.region.top

\* A group's dimension on the secondary axis, in whole pixels
SecondaryDim(g) == IF Vertical THEN g.layout.width ELSE g.layout.height

\* The document's extent on the secondary axis, in half pixels
SecondaryExtent == IF Vertical THEN Dimensions.width ELSE Dimensions.height

\* The document padding on both sides of the secondary axis, in whole pixels
SecondaryPadding ==
    IF Vertical
    THEN config.padding.document.left + config.padding.document.right
    ELSE config.padding.document.top + config.padding.document.bottom

\* C5, as claimed: for every group, twice its secondary-axis offset plus its
\* secondary dimension equals the document's secondary extent minus the
\* document padding on that axis, within one pixel.
C5_Original ==
    Returned =>
        \A i \in 1..Len(Groups) :
            Abs(2 * SecondaryOffset(Groups[i]) + Px(SecondaryDim(Groups[i]))
                - (SecondaryExtent - Px(SecondaryPadding))) <= Px(1)

\* C5, amended: for every group, twice its secondary-axis offset plus its
\* secondary dimension equals the document's secondary extent exactly, the
\* document padding on that axis included (not subtracted).
C5_CenteredInExtent ==
    Returned =>
        \A i \in 1..Len(Groups) :
            2 * SecondaryOffset(Groups[i]) + Px(SecondaryDim(Groups[i]))
                = SecondaryExtent

\* A group narrower than the document by an odd number of pixels, so that
\* its offset is not a whole pixel, under a document padding of two pixels
C5_Witness ==
    /\ Returned
    /\ SecondaryPadding >= 2
    /\ \E i \in 1..Len(Groups) : SecondaryOffset(Groups[i]) % HalfDiv = 1

---------------------------------------------------------------------------
(* C6 *)

\* The document's extent on the primary axis, in half pixels
PrimaryExtent == IF Vertical THEN Dimensions.height ELSE Dimensions.width

\* The final cursor: the trailing edge of the last region, 0 without groups
FinalCursor ==
    IF Len(Groups) = 0 THEN 0 ELSE TrailingEdge(Groups[Len(Groups)].region)

\* C6, as claimed: the document's extent on the primary axis equals the
\* trailing edge of the last region plus the document-level leading padding
\* on that axis (padding.document.top when vertical, padding.document.left
\* otherwise).  Stated for the layouts that have a last region.
C6_Original ==
    (Returned /\ Len(Groups) >= 1) =>
        PrimaryExtent = FinalCursor
            + Px(IF Vertical THEN config.padding.document.top
                             ELSE config.padding.document.left)

\* C6, amended: the document's extent on the primary axis equals the
\* trailing edge of the last region plus the page-level leading padding on
\* that axis (padding.page.top when vertical, padding.page.left otherwise).
C6_PrimaryExtent ==
    Returned =>
        PrimaryExtent = FinalCursor
            + Px(IF Vertical THEN config.padding.page.top
                             ELSE config.padding.page.left)

\* A layout with groups whose page padding on the primary axis differs from
\* the document padding there
C6_Witness ==
    /\ Returned
    /\ Len(Groups) >= 2
    /\ IF Vertical
       THEN config.padding.page.top > config.padding.document.top
       ELSE config.padding.page.left > config.padding.document.left

---------------------------------------------------------------------------
(* C7 *)

\* The largest secondary dimension among the groups, 0 without groups
MaxSecondaryDim ==
    LET dims == { SecondaryDim(Groups[i]) : i \in 1..Len(Groups) } \cup {0}
    IN  CHOOSE m \in dims : \A d \in dims : d <= m

\* C7: the document's extent on the secondary axis equals the maximum over
\* all groups of that dimension (0 without groups) plus the document padding
\* on both sides of that axis.
C7_SecondaryExtent ==
    Returned => SecondaryExtent = Px(MaxSecondaryDim + SecondaryPadding)

\* Groups of different secondary dimensions, the largest not the last, under
\* a document padding that differs between the two axes
C7_Witness ==
    /\ Returned
    /\ Len(Groups) >= 2
    /\ SecondaryDim(Groups[1]) > SecondaryDim(Groups[Len(Groups)])
    /\ SecondaryPadding > 0
    /\ config.padding.document.left + config.padding.document.right
           # config.padding.document.top + config.padding.document.bottom

---------------------------------------------------------------------------
(* C8 *)

\* The resolved dimensions of page `index` at the configured zoom level
ResolvedDims(index) ==
    getPageDimensions(index, config.manifest, config.zoomLevel, Undefined).value

\* The page of PageOffset o lies entirely inside layout group l
PageInsideGroup(o, l) ==
    /\ 0 <= o.left
    /\ o.left + ResolvedDims(o.index).width <= l.width
    /\ 0 <= o.top
    /\ o.top + ResolvedDims(o.index).height <= l.height

\* C8: in every layout group of either grouper, every PageOffset places its
\* page entirely inside the group: 0 <= left, left + pageWidth <= width,
\* 0 <= top and top + pageHeight <= height, with the page's resolved
\* dimensions at the configured zoom level.
C8_PagesInsideGroup ==
    Returned =>
        \A i \in 1..Len(Groups) :
            \A j \in 1..OffsetCount(Groups[i]) :
                PageInsideGroup(Groups[i].layout.pageOffsets[j], Groups[i].layout)

\* A facing-page group in vertical orientation whose right page is wider and
\* whose left page is higher than the other
C8_Witness ==
    /\ Returned /\ BookMode /\ Vertical
    /\ \E i \in 1..Len(Groups) :
           /\ OffsetCount(Groups[i]) = 2
           /\ ResolvedDims(Groups[i].layout.pageOffsets[2].index).width
                  > ResolvedDims(Groups[i].layout.pageOffsets[1].index).width
           /\ ResolvedDims(Groups[i].layout.pageOffsets[1].index).height
                  > ResolvedDims(Groups[i].layout.pageOffsets[2].index).height

---------------------------------------------------------------------------
(* C9 *)

\* The documented example: 3 pages, each 100 x 200 at the configured zoom
\* level, in book mode, vertical orientation, no skipped pages
ExampleCase ==
    /\ Returned /\ BookNoSkipping /\ Vertical
    /\ PageCount = 3
    /\ \A k \in 0..2 : ResolvedDims(k) = [width |-> 100, height |-> 200]

\* Page 0 standalone in a 200 x 200 group, flush right
ExampleCover(l) ==
    l = [height |-> 200, width |-> 200,
         pageOffsets |-> << [index |-> 0, top |-> 0, left |-> 100] >>]

\* Pages 1 and 2 paired in one 200 x 200 group
ExampleSpread(l) ==
    l = [height |-> 200, width |-> 200,
         pageOffsets |-> << [index |-> 1, top |-> 0, left |-> 0],
                            [index |-> 2, top |-> 0, left |-> 100] >>]

ExampleWidth ==
    Dimensions.width
        = Px(200 + config.padding.document.left + config.padding.document.right)

\* C9, as claimed: the example yields three PageGroups in total, page 0
\* standalone in a 200 x 200 group with left offset 100, pages 1 and 2
\* paired in one 200 x 200 group, and document width 200 plus the left and
\* right document padding.
C9_Original ==
    ExampleCase =>
        /\ Len(Groups) = 3
        /\ ExampleCover(Groups[1].layout)
        /\ ExampleSpread(Groups[2].layout)
        /\ ExampleWidth

\* C9, amended: the example yields two PageGroups in total, page 0
\* standalone in a 200 x 200 group with left offset 100, pages 1 and 2
\* paired in one 200 x 200 group, and document width 200 plus the left and
\* right document padding.
C9_Example ==
    ExampleCase =>
        /\ Len(Groups) = 2
        /\ ExampleCover(Groups[1].layout)
        /\ ExampleSpread(Groups[2].layout)
        /\ ExampleWidth

\* The example laid out under a document padding on the left and the right
C9_Witness ==
    /\ ExampleCase
    /\ config.padding.document.left > 0
    /\ config.padding.document.right > 0

---------------------------------------------------------------------------
(* C10 *)

\* C10: for a manifest without pages, in every mode and orientation,
\* getDocumentLayout returns (it does not throw) an empty pageGroups sequence
\* and dimensions made of padding only: the document padding on both sides
\* of the secondary axis, and the leading page padding on the primary axis.
C10_EmptyManifest ==
    (pc = "done" /\ PageCount = 0) =>
        /\ result.kind = "return"
        /\ Groups = << >>
        /\ SecondaryExtent = Px(SecondaryPadding)
        /\ PrimaryExtent = Px(IF Vertical THEN config.padding.page.top
                                          ELSE config.padding.page.left)

\* An empty manifest laid out in book mode under some document padding on
\* the secondary axis
C10_Witness ==
    /\ pc = "done" /\ PageCount = 0
    /\ BookMode
    /\ SecondaryPadding > 0

---------------------------------------------------------------------------
(* C11 *)

\* The configured zoom level is absent from the dimension table of page i
LacksZoomLevel(i) ==
    config.zoomLevel \notin DOMAIN config.manifest.pages[i + 1].d

\* Page i is one the grouper resolves: every page, except in book mode the
\* pages of a paged manifest that are not marked paged
IsEligible(i) ==
    ~(BookMode /\ config.manifest.paged /\ ~config.manifest.pages[i + 1].paged)

\* C11, as claimed: if the configured zoom level is absent from the
\* dimension table of any page of the manifest, getDocumentLayout (in either
\* mode, paged manifests included) fails with an error and returns no
\* layout.  (Stated without the name of the error.)
C11_Original ==
    (pc = "done" /\ \E i \in 0..(PageCount - 1) : LacksZoomLevel(i)) =>
        result.kind = "throw"

\* C11, amended: getDocumentLayout fails exactly when the configured zoom
\* level is absent from the table of a page the grouper resolves (every page
\* in single-page mode and for a non-paged manifest; in book mode of a paged
\* manifest only the pages marked paged); the failure is the TypeError of
\* reading the missing entry, it propagates and carries no layout, not even
\* a partial one.  When only skipped pages lack the level, a layout is
\* returned.
C11_MissingZoomLevel ==
    pc = "done" =>
        IF \E i \in 0..(PageCount - 1) : IsEligible(i) /\ LacksZoomLevel(i)
        THEN result = [kind |-> "throw", error |-> "TypeError"]
        ELSE result.kind = "return"

\* Several pages of which only the last lacks the configured zoom level:
\* the groups of the pages before it are not returned
C11_Witness ==
    /\ pc = "done" /\ result.kind = "throw"
    /\ PageCount >= 2
    /\ LacksZoomLevel(PageCount - 1)
    /\ \A i \in 0..(PageCount - 2) : ~LacksZoomLevel(i)

---------------------------------------------------------------------------
(* Vocabulary of the book-mode properties *)

\* The indices of the pages the grouper resolves, in page order
EligibleIndices ==
    LET F[i \in 0..PageCount] ==
            IF i = PageCount THEN << >>
            ELSE IF IsEligible(i) THEN << i >> \o F[i + 1]
            ELSE F[i + 1]
    IN  F[0]

\* The eligible pages that take part in the pairing: all but page 0 in
\* vertical orientation
PairableIndices ==
    IF Vertical /\ EligibleIndices # << >> /\ EligibleIndices[1] = 0
    THEN Tail(EligibleIndices)
    ELSE EligibleIndices

\* The page indices of a group's PageOffsets, left to right
OffsetIndices(g) ==
    [j \in 1..OffsetCount(g) |-> g.layout.pageOffsets[j].index]

\* The page indices of all groups, group by group
AllOffsetIndices ==
    LET F[k \in 0..Len(Groups)] ==
            IF k = 0 THEN << >> ELSE F[k - 1] \o OffsetIndices(Groups[k])
    IN  F[Len(Groups)]

---------------------------------------------------------------------------
(* C15 *)

\* C15: in book mode with a paged manifest, a page not marked paged appears
\* in no group's PageOffsets, and skipping leaves the pending left page in
\* place: the pages that are paired are the eligible ones taken two by two
\* in page order, whatever skipped pages lie between the two of a pair.
C15_SkipKeepsPendingLeft ==
    (Returned /\ BookMode /\ config.manifest.paged) =>
        /\ \A g \in 1..Len(Groups) : \A j \in 1..OffsetCount(Groups[g]) :
               config.manifest.pages[OffsetIndices(Groups[g])[j] + 1].paged
        /\ \A k \in 1..(Len(PairableIndices) \div 2) :
               \E g \in 1..Len(Groups) :
                   OffsetIndices(Groups[g])
                       = << PairableIndices[2 * k - 1], PairableIndices[2 * k] >>

\* A facing-page group whose two pages have a skipped page between them
C15_Witness ==
    /\ Returned /\ BookMode /\ config.manifest.paged
    /\ \E g \in 1..Len(Groups) :
           /\ OffsetCount(Groups[g]) = 2
           /\ OffsetIndices(Groups[g])[2] > OffsetIndices(Groups[g])[1] + 1

---------------------------------------------------------------------------
(* C16 *)

\* The group of a page emitted alone at left offset `left`, `factor` times
\* as wide as the page
AloneGroup(index, left, factor) ==
    [height      |-> ResolvedDims(index).height,
     width       |-> ResolvedDims(index).width * factor,
     pageOffsets |-> << [index |-> index, top |-> 0, left |-> left] >>]

\* C16: in book mode, (a) in vertical orientation an eligible page 0 is
\* emitted alone, first, in a group of its own height and twice its width
\* at left offset equal to its width, and is in no other group; (b) a left
\* page pending at the end of the scan is emitted alone, last, with its own
\* height, offsets 0 and 0, and twice its width in vertical orientation,
\* its own width in horizontal orientation; (c) when page 0 is skipped,
\* no other page gets the first-page treatment: a group of a single page
\* can only be that trailing group.
C16_SinglePageGroups ==
    (Returned /\ BookMode) =>
        /\ (Vertical /\ PageCount >= 1 /\ IsEligible(0)) =>
               /\ Groups[1].layout = AloneGroup(0, ResolvedDims(0).width, 2)
               /\ \A g \in 2..Len(Groups) : \A j \in 1..OffsetCount(Groups[g]) :
                      OffsetIndices(Groups[g])[j] # 0
        /\ Len(PairableIndices) % 2 = 1 =>
               Groups[Len(Groups)].layout
                   = AloneGroup(PairableIndices[Len(PairableIndices)], 0,
                                IF Vertical THEN 2 ELSE 1)
        /\ (PageCount >= 1 /\ ~(Vertical /\ IsEligible(0))) =>
               \A g \in 1..Len(Groups) :
                   OffsetCount(Groups[g]) = 1 =>
                       /\ g = Len(Groups)
                       /\ Len(PairableIndices) % 2 = 1
                       /\ Groups[g].layout.pageOffsets[1].left = 0

\* Vertical book mode of a paged manifest whose page 0 is skipped and whose
\* last eligible page is left pending
C16_Witness ==
    /\ Returned /\ BookMode /\ Vertical
    /\ PageCount >= 3
    /\ ~IsEligible(0)
    /\ PairableIndices = << 1 >>
    /\ Len(Groups) = 1
    /\ OffsetCount(Groups[1]) = 1

---------------------------------------------------------------------------
(* C17 *)

\* C17: a facing-page group is as high as the higher of its two pages and
\* both pages have top offset 0; in vertical orientation it is twice as wide
\* as the wider page, the left page ends and the right page starts at the
\* seam in the middle; in horizontal orientation it is as wide as the two
\* pages together, the left page at offset 0 and the right page at the left
\* page's width.
C17_FacingPageGroup ==
    (Returned /\ BookMode) =>
        \A g \in 1..Len(Groups) :
            IsPair(Groups[g]) =>
                LET layout == Groups[g].layout
                    first  == layout.pageOffsets[1]
                    second == layout.pageOffsets[2]
                    l      == ResolvedDims(first.index)
                    r      == ResolvedDims(second.index)
                    mid    == MathMax(l.width, r.width)
                IN  /\ layout.height = MathMax(l.height, r.height)
                    /\ first.top = 0 /\ second.top = 0
                    /\ IF Vertical
                       THEN /\ layout.width = 2 * mid
                            /\ first.left = mid - l.width
                            /\ second.left = mid
                            /\ 2 * (first.left + l.width) = layout.width
                            /\ 2 * second.left = layout.width
                       ELSE /\ layout.width = l.width + r.width
                            /\ first.left = 0
                            /\ second.left = l.width

\* A vertical facing-page group whose left page is wider and whose right
\* page is higher
C17_Witness ==
    /\ Returned /\ BookMode /\ Vertical
    /\ \E g \in 1..Len(Groups) :
           /\ IsPair(Groups[g])
           /\ LET l == ResolvedDims(Groups[g].layout.pageOffsets[1].index)
                  r == ResolvedDims(Groups[g].layout.pageOffsets[2].index)
              IN  l.width > r.width /\ r.height > l.height

---------------------------------------------------------------------------
(* C18 *)

\* C18: in book mode the page indices of the PageOffsets, read group by
\* group and left to right, are exactly the eligible pages in page order:
\* each eligible page once, no other index, strictly increasing.
C18_EligiblePagesOnceInOrder ==
    (Returned /\ BookMode) =>
        /\ AllOffsetIndices = EligibleIndices
        /\ \A a, b \in 1..Len(AllOffsetIndices) :
               a < b => AllOffsetIndices[a] < AllOffsetIndices[b]
        /\ \A i \in 0..(PageCount - 1) :
               IsEligible(i) <=>
                   Cardinality({a \in 1..Len(AllOffsetIndices) : AllOffsetIndices[a] = i}) = 1

\* A paged manifest with a skipped page between eligible ones, laid out in
\* more than one group
C18_Witness ==
    /\ Returned /\ BookMode /\ Vertical /\ config.manifest.paged
    /\ PageCount = 3
    /\ EligibleIndices = << 0, 2 >>
    /\ Len(Groups) = 2

---------------------------------------------------------------------------
(* C19 *)

\* The page padding on the secondary axis, in pixels
SecondaryPagePadding ==
    IF Vertical THEN config.padding.page.left ELSE config.padding.page.top

\* The trailing edge of a region along the secondary axis, in half pixels
SecondaryTrailingEdge(region) == IF Vertical THEN region.right ELSE region.bottom

\* C19 as stated: with non-negative paddings every region lies inside the
\* canvas on all four sides.
C19_Original ==
    Returned =>
        \A g \in 1..Len(Groups) :
            /\ 0 <= Groups[g].region.top
            /\ Groups[g].region.bottom <= Dimensions.height
            /\ 0 <= Groups[g].region.left
            /\ Groups[g].region.right <= Dimensions.width

\* C19: with non-negative paddings every region starts at or after 0 on
\* both axes and ends inside the canvas along the primary axis; along the
\* secondary axis it ends at most one page padding beyond the canvas, and
\* inside the canvas whenever twice the page padding on that axis is at most
\* the sum of the two document paddings on that axis.
C19_RegionsInsideCanvas ==
    Returned =>
        \A g \in 1..Len(Groups) :
            LET region == Groups[g].region
            IN  /\ 0 <= region.top
                /\ 0 <= region.left
                /\ TrailingEdge(region) <= PrimaryExtent
                /\ SecondaryTrailingEdge(region)
                       <= SecondaryExtent + Px(SecondaryPagePadding)
                /\ 2 * SecondaryPagePadding <= SecondaryPadding =>
                       SecondaryTrailingEdge(region) <= SecondaryExtent

\* With a page padding on the secondary axis and document paddings on that
\* axis that sum to twice as much or more, the region of the widest group
\* ends inside the canvas, less than a pixel of page padding away from its
\* edge or at it
C19_Witness ==
    /\ Returned
    /\ SecondaryPagePadding > 0
    /\ 2 * SecondaryPagePadding <= SecondaryPadding
    /\ \E g \in 1..Len(Groups) :
           /\ SecondaryTrailingEdge(Groups[g].region) <= SecondaryExtent
           /\ SecondaryTrailingEdge(Groups[g].region)
                  > SecondaryExtent - Px(SecondaryPagePadding)

---------------------------------------------------------------------------
(* Vocabulary of the plugin properties *)

\* This step is the subscriber of "ManifestFetchError" handling a failure
\* with `status`
FetchErrorHandled(status) ==
    /\ lastEvent'.handler = "ManifestFetchError"
    /\ lastEvent'.status = status
    /\ \E r \in Pending : manifestRequests' = manifestRequests (-) SetToBag({r})

\* This step issues a token request: the id is the current time and the
\* token iframe is pointed at the token service with that id
TokenRequestIssued ==
    /\ tokenRequests' = Append(tokenRequests, now)
    /\ authTokenId' = Val(now)
    /\ tokenFrame' = [src |-> AuthTokenUrl.href \o "?messageId=" \o ToString(now)
                                  \o "&origin=" \o "https://viewer.example.org"]

\* This step delivers a postMessage event
MessageDelivered == delivered' = delivered + 1

\* The Authorization header configured, Null when there is none
AuthorizationOf(headers) ==
    IF headers # Null /\ "Authorization" \in DOMAIN headers.value
    THEN Val(headers.value["Authorization"])
    ELSE Null

\* The headers other than Authorization, as a set of name-value pairs
OtherHeaders(headers) ==
    IF headers = Null
    THEN {}
    ELSE { <<k, headers.value[k]>> : k \in (DOMAIN headers.value) \ {"Authorization"} }

---------------------------------------------------------------------------
(* C12 *)

\* The id this step issues was issued by no earlier token request
FreshId == \A k \in 1..Len(tokenRequests) : tokenRequests[k] # now

---------------------------------------------------------------------------
(* C14 *)

\* The id of a token request as a message of the token service carries it:
\* the number, or its decimal digits as the service reads them from the
\* query string of the request
IdForms == [id \in ClockValues |-> {Num(id), Str(NumberToString(id))}]

\* The messages that come from the token service and carry the id of each
\* token request
AnswersOf ==
    [id \in ClockValues |->
        { event \in MessageEvents :
              /\ event.origin = "https://auth.example.org:8443"
              /\ "messageId" \in DOMAIN event.data
              /\ event.data.messageId \in IdForms[id] }]

\* The messages that come from the token service and carry the id of the
\* most recent token request
CurrentAnswers ==
    IF authTokenId = Null THEN {} ELSE AnswersOf[authTokenId.value]

\* The messages that carry an access token, one that is not null
TokenMessageEvents ==
    { event \in MessageEvents :
          "accessToken" \in DOMAIN event.data /\ event.data.accessToken # Null }

\* C14: when a message from the token service origin with the current
\* message id contains an access token, the plugin stores the token, clears
\* authError and sets the Authorization header to 'Bearer <token>' (leaving
\* the other headers alone) before it reloads the manifest: the manifest
\* request the reload sends carries the newly received token.
C14_TokenSetBeforeReload ==
    [][MessageDelivered => \A event \in CurrentAnswers \cap TokenMessageEvents :
           ReceiveMessage(event) =>
               LET token   == event.data.accessToken.value
                   retried == [headers |-> addRequestHeaders']
               IN  /\ authToken' = Val(token)
                   /\ authError' = Null
                   /\ AuthorizationOf(addRequestHeaders') = Val("Bearer " \o token)
                   /\ OtherHeaders(addRequestHeaders') = OtherHeaders(addRequestHeaders)
                   /\ manifestRequests' = manifestRequests (+) SetToBag({retried})
                   /\ AuthorizationOf(retried.headers) = Val("Bearer " \o token)]_vars

\* The token service answered the only token request, the one issued at
\* Epoch, first with an error and then with tokenB: the reload after the
\* error is in flight without a token (of the messages explored only an
\* error answer reloads the manifest without a token while that request is
\* current), the error is cleared, tokenB is stored, and the reload after
\* the token is in flight with 'Bearer tokenB' next to the header
\* configured before
C14_Witness ==
    /\ delivered = 2
    /\ tokenRequests = <<Epoch>>
    /\ authToken = Val("tokenB")
    /\ authError = Null
    /\ addRequestHeaders = Val([Accept |-> "application/json",
                                Authorization |-> "Bearer tokenB"])
    /\ manifestRequests
           = SetToBag({[headers |-> Val([Accept |-> "application/json"])],
                       [headers |-> addRequestHeaders]})
    /\ lastEvent = [handler |-> "message", returned |-> "end"]

---------------------------------------------------------------------------
(* C20 *)

\* The id of the most recent token request as a message carries it
CurrentIdForms ==
    IF authTokenId = Null
    THEN {}
    ELSE IdForms[authTokenId.value]

\* The message's id is not the id of the most recent token request, neither
\* as a number nor as its decimal digits (a message without an id, or with
\* the id null, differs from every issued id)
MessageIdDiffers(data) ==
    IF "messageId" \in DOMAIN data /\ data.messageId # Null
    THEN data.messageId \notin CurrentIdForms
    ELSE authTokenId # Null

\* The message's id and authTokenId are loosely equal: before the first
\* token request, when authTokenId is null, the message has no id or the id
\* null; afterwards its id converts to the number authTokenId
LooselyEqualsCurrentId(data) ==
    IF authTokenId = Null
    THEN "messageId" \notin DOMAIN data \/ data.messageId = Null
    ELSE "messageId" \in DOMAIN data
             /\ LooselyEqual[data.messageId][authTokenId.value]

\* C20 as stated: a postMessage whose origin is not the token service's, or
\* whose messageId differs from the id of the most recent token request,
\* leaves authToken, authError and the request headers unchanged and
\* triggers no manifest reload: a delivery that changes any of them is the
\* delivery of no such message.
C20_Original ==
    [][MessageDelivered =>
           \/ UNCHANGED <<authToken, authError, addRequestHeaders, manifestRequests>>
           \/ \A event \in MessageEvents :
                  (event.origin # "https://auth.example.org:8443"
                       \/ MessageIdDiffers(event.data)) => ~ReceiveMessage(event)]_vars

\* C20: a postMessage whose origin is not the token service's, or whose
\* messageId is not loosely equal (==) to authTokenId, the id of the most
\* recent token request, leaves authToken, authError and the request
\* headers unchanged and triggers no manifest reload: a delivery that
\* changes any of them is the delivery of no such message.  (A late reply
\* to a superseded request is such a message; the digits of the current id
\* with white space around them or a fraction of zeros, or an array holding
\* the id, are not: they convert to the id.)
C20_ForeignMessageIgnored ==
    [][MessageDelivered =>
           \/ UNCHANGED <<authToken, authError, addRequestHeaders, manifestRequests>>
           \/ \A event \in MessageEvents :
                  (event.origin # "https://auth.example.org:8443"
                       \/ ~LooselyEqualsCurrentId(event.data)) => ~ReceiveMessage(event)]_vars

\* After a second token request has superseded the first, a message has
\* just been dropped at the check of its messageId, and no message has been
\* accepted: nothing is held and only the first manifest request was sent
C20_Witness ==
    /\ lastEvent = [handler |-> "message", returned |-> "messageId"]
    /\ tokenRequests = <<Epoch, Epoch + 1>>
    /\ authTokenId = Val(Epoch + 1)
    /\ authToken = Null
    /\ authError = Null
    /\ manifestRequests = EmptyBag
    /\ addRequestHeaders \in InitialHeaders

---------------------------------------------------------------------------
(* C13 *)

\* The messages in which the token service answers a token request with an
\* error
ErrorMessageEvents ==
    { event \in MessageEvents :
          event.origin = "https://auth.example.org:8443" /\ "error" \in DOMAIN event.data }

\* This step is the token service answering the current token request with
\* an error: the error is recorded, no token is held, the Authorization
\* header is gone and the manifest is requested again without it
ErrorAnswerReloads ==
    MessageDelivered => \A event \in CurrentAnswers \cap ErrorMessageEvents :
        ReceiveMessage(event) =>
            /\ authError' = event.data.error
            /\ authError' # Null
            /\ authToken' = Null
            /\ AuthorizationOf(addRequestHeaders') = Null
            /\ OtherHeaders(addRequestHeaders') = OtherHeaders(addRequestHeaders)
            /\ manifestRequests'
                   = manifestRequests (+) SetToBag({[headers |-> addRequestHeaders']})

\* This step answers a 401 of the manifest with the login dialog when a
\* token error is recorded
UnauthorizedShowsLogin ==
    (authError # Null /\ FetchErrorHandled(401)) =>
        /\ Len(errorElements') = Len(errorElements) + 1
        /\ errorElements'[1] > 0
        /\ UNCHANGED <<authError, tokenRequests>>

\* The poll of every login window that has been closed has issued its token
\* request
ClosedWindowsRequested ==
    \A loginWindow \in Windows : loginWindow.closed => loginWindow.requests = 1

\* How many of the login windows `windows` are closed
ClosedCount(windows) ==
    BagCardinality([w \in { x \in BagToSet(windows) : x.closed } |-> windows[w]])

\* No login window goes away and none that is closed is open again: this
\* step lowers neither the number of login windows nor the number of closed
\* ones
WindowsStayClosed ==
    \/ UNCHANGED loginWindows
    \/ /\ BagCardinality(loginWindows') >= BagCardinality(loginWindows)
       /\ ClosedCount(loginWindows') >= ClosedCount(loginWindows)

\* This step is the poll of the login window `loginWindow` issuing a token
\* request
PollRequests(loginWindow) ==
    /\ loginWindows' # loginWindows
    /\ loginWindows' = WindowChanged(loginWindows, loginWindow,
                                     [loginWindow EXCEPT !.requests = @ + 1])

\* Some login window opened from the login dialog is still open
DialogWindowOpen ==
    \E loginWindow \in Windows : loginWindow.opener = "dialog" /\ ~loginWindow.closed

---------------------------------------------------------------------------
(* C21 *)

\* C21: in every reachable state of the plugin, started with no
\* Authorization header configured, the request headers contain
\* Authorization = 'Bearer ' + authToken exactly when authToken is not null
\* and no Authorization entry otherwise, and authToken and authError are
\* never both set.
C21_HeaderFollowsToken ==
    /\ IF authToken # Null
       THEN /\ addRequestHeaders # Null
            /\ "Authorization" \in DOMAIN addRequestHeaders.value
            /\ addRequestHeaders.value["Authorization"] = "Bearer " \o authToken.value
       ELSE addRequestHeaders = Null
                \/ "Authorization" \notin DOMAIN addRequestHeaders.value
    /\ ~(authToken # Null /\ authError # Null)

\* With no header map configured at the start, the token service answered
\* with a token and then with an error: the Authorization header the token
\* had put into a new header map is deleted again (the map is there and
\* empty), the token is dropped and the error recorded
C21_Witness ==
    /\ delivered = 2
    /\ authToken = Null
    /\ authError # Null
    /\ addRequestHeaders = Val(<< >>)
    /\ \E t \in Tokens :
           [headers |-> Val([Authorization |-> "Bearer " \o t])] \in Pending
    /\ [headers |-> Val(<< >>)] \in Pending

=============================================================================
